---- MODULE Spec2Model ----
(***************************************************************************)
(* Conway's Game of Life (afroash/gameoflife, main.go).                    *)
(*                                                                         *)
(* The World's mutable fields (liveCells, isSimulating, lastUpdate) are    *)
(* the state.  Game.Update is one frame; it is a straight line of eight    *)
(* checks, each reading one input and possibly calling one World method.   *)
(* pc is the position inside Update (the check to be run next); every      *)
(* check is one action and the actions can only fire in source order.      *)
(* ev is the input read, and the call made, by the check that ran last;    *)
(* frame is what the current call of Update has seen so far: the mode it   *)
(* was entered in, and whether the step keys and the pause key were active.*)
(***************************************************************************)
EXTENDS Integers, Sequences, FiniteSets, TLC

VARIABLES liveCells, isSimulating, lastUpdate, now, pc, ev, frame

world == <<liveCells, isSimulating, lastUpdate>>
vars == <<liveCells, isSimulating, lastUpdate, now, pc, ev, frame>>

(***************************************************************************)
(* Program constants (main.go:14-22, 277).                                 *)
(***************************************************************************)
screenWidth == 800
screenHeight == 800
tileSize == 20
gridTop == 20
gridWidth == screenWidth \div tileSize
gridHeight == screenHeight \div tileSize
stepInterval == 300

(***************************************************************************)
(* Bounds of the model.                                                    *)
(***************************************************************************)
\* The clock stops the exploration at MaxTime milliseconds.
MaxTime == 750
\* Live-cell sets of at most MaxPerm cells are iterated in every order by
\* SimulateWorld; larger ones in ascending and in descending order.
MaxPerm == 3

\* Where the clock is not stopped at MaxTime it is kept as the time since
\* lastUpdate, which is all that Update reads of it, up to MaxElapsed.
MaxElapsed == 600

\* Milliseconds between two calls of Update: below, and above, stepInterval.
FrameTimes == {150, 301}

\* Pointer pixel positions (ebiten.CursorPosition): inside the grid, in the
\* top margin, and off each side of the grid.
Pointers ==
    { <<5, 25>>, <<25, 25>>, <<45, 25>>, <<25, 125>>,
      <<-5, 25>>, <<-25, 25>>, <<5, 5>>, <<5, -5>>,
      <<805, 25>>, <<5, 825>> }

\* Coordinates among which those that rand.Intn(gridWidth) and
\* rand.Intn(gridHeight) can return are explored.
RandSample == { <<0, 0>>, <<1, 0>>, <<39, 39>>, <<40, 0>>, <<0, 40>> }
\* The first MaxPicks coordinates drawn by generateRandomCells are sampled
\* freely; the draws after them repeat the last one.
MaxPicks == 2

(***************************************************************************)
(* Go integer arithmetic: the quotient a / b truncates toward zero.        *)
(***************************************************************************)
GoDiv(a, b) == IF a >= 0 THEN a \div b ELSE -((-a) \div b)

\* rand.Intn(n) returns any integer of [0, n).
Intn(n) == 0 .. (n - 1)

\* type tile struct { x, y int }
tile(x, y) == <<x, y>>

\* Lines 147-148: the coordinates x := rand.Intn(w.gridWidth),
\* y := rand.Intn(w.gridHeight) that are explored.
RandCells == { c \in RandSample : c[1] \in Intn(gridWidth) /\ c[2] \in Intn(gridHeight) }

\* ev: the call a check of Update made ("none" when its input was not
\* active), the pointer position of a click, and the count of a randomize
\* or the number of live cells a SimulateWorld call ranged over.
Ev(kind, x, y, n) == [kind |-> kind, x |-> x, y |-> y, n |-> n]
NoEv == Ev("none", 0, 0, 0)

\* frame: on entry of Update, and between two calls of Update.
Frame(sim0, keyStep, pause) == [sim0 |-> sim0, keyStep |-> keyStep, pause |-> pause]
NoFrame == Frame(FALSE, FALSE, FALSE)

(***************************************************************************)
(* NewWorld: an empty map, not simulating, lastUpdate = time.Now().        *)
(***************************************************************************)
Init ==
    /\ liveCells = {}
    /\ isSimulating = FALSE
    /\ lastUpdate = 0
    /\ now = 0
    /\ pc = "quit"
    /\ ev = NoEv
    /\ frame = NoFrame

(***************************************************************************)
(* countLiveNeighbors: the loop over i, j in -1..1 that skips (0, 0) and   *)
(* counts the offsets whose cell is a key of the map.                      *)
(***************************************************************************)
Offsets == { o \in (-1 .. 1) \X (-1 .. 1) : ~(o[1] = 0 /\ o[2] = 0) }

\* countLiveNeighbors without the `continue` that skips the cell itself.
countLiveNeighborsCountsSelf(cells, x, y) ==
    Cardinality({ o \in (-1 .. 1) \X (-1 .. 1) : tile(x + o[1], y + o[2]) \in cells })

countLiveNeighbors(cells, x, y) ==
    Cardinality({ o \in Offsets : tile(x + o[1], y + o[2]) \in cells })


(***************************************************************************)
(* SimulateWorld.  The body of `for cell := range w.liveCells`: the cell   *)
(* is kept when it has 2 or 3 live neighbours, and each of its 8           *)
(* neighbours that has exactly 3 live neighbours is added.                 *)
(***************************************************************************)
\* VisitCell with the survival test written `liveNeighbors >= 2`.
VisitCellKeepsCrowded(cells, cell, nextGeneration) ==
    LET liveNeighbors == countLiveNeighbors(cells, cell[1], cell[2])
        survived == IF liveNeighbors >= 2
                    THEN nextGeneration \cup {cell}
                    ELSE nextGeneration
        born == { tile(cell[1] + o[1], cell[2] + o[2]) :
                    o \in { d \in Offsets :
                        countLiveNeighbors(cells, cell[1] + d[1], cell[2] + d[2]) = 3 } }
    IN  survived \cup born

\* VisitCell with the birth test written `liveNeighbors >= 3`.
VisitCellBearsCrowded(cells, cell, nextGeneration) ==
    LET liveNeighbors == countLiveNeighbors(cells, cell[1], cell[2])
        survived == IF liveNeighbors = 2 \/ liveNeighbors = 3
                    THEN nextGeneration \cup {cell}
                    ELSE nextGeneration
        born == { tile(cell[1] + o[1], cell[2] + o[2]) :
                    o \in { d \in Offsets :
                        countLiveNeighbors(cells, cell[1] + d[1], cell[2] + d[2]) >= 3 } }
    IN  survived \cup born

\* VisitCell counting the neighbours in the map that is being written as
\* well (an update in place).
VisitCellInPlace(cells, cell, nextGeneration) ==
    LET liveNeighbors == countLiveNeighbors(cells \cup nextGeneration, cell[1], cell[2])
        survived == IF liveNeighbors = 2 \/ liveNeighbors = 3
                    THEN nextGeneration \cup {cell}
                    ELSE nextGeneration
        born == { tile(cell[1] + o[1], cell[2] + o[2]) :
                    o \in { d \in Offsets :
                        countLiveNeighbors(cells \cup nextGeneration,
                                           cell[1] + d[1], cell[2] + d[2]) = 3 } }
    IN  survived \cup born

\* VisitCell keeping only the survivors and the births inside the grid.
VisitCellClips(cells, cell, nextGeneration) ==
    LET liveNeighbors == countLiveNeighbors(cells, cell[1], cell[2])
        survived == IF liveNeighbors = 2 \/ liveNeighbors = 3
                    THEN nextGeneration \cup {cell}
                    ELSE nextGeneration
        born == { tile(cell[1] + o[1], cell[2] + o[2]) :
                    o \in { d \in Offsets :
                        countLiveNeighbors(cells, cell[1] + d[1], cell[2] + d[2]) = 3 } }
    IN  { c \in survived \cup born :
            c[1] >= 0 /\ c[1] < gridWidth /\ c[2] >= 0 /\ c[2] < gridHeight }

VisitCell(cells, cell, nextGeneration) ==
    LET liveNeighbors == countLiveNeighbors(cells, cell[1], cell[2])
        survived == IF liveNeighbors = 2 \/ liveNeighbors = 3
                    THEN nextGeneration \cup {cell}
                    ELSE nextGeneration
        born == { tile(cell[1] + o[1], cell[2] + o[2]) :
                    o \in { d \in Offsets :
                        countLiveNeighbors(cells, cell[1] + d[1], cell[2] + d[2]) = 3 } }
    IN  survived \cup born

\* nextGeneration after the range loop has visited order[1..i].
RECURSIVE RangeLoop(_, _, _)
RangeLoop(cells, order, i) ==
    IF i = 0 THEN {}
    ELSE VisitCell(cells, order[i], RangeLoop(cells, order, i - 1))

\* Go leaves the iteration order of a map unspecified: the orders explored.
Less(a, b) == a[1] < b[1] \/ (a[1] = b[1] /\ a[2] < b[2])

RECURSIVE Ascending(_)
Ascending(S) ==
    IF S = {} THEN <<>>
    ELSE LET m == CHOOSE c \in S : \A d \in S : d = c \/ Less(c, d)
         IN  <<m>> \o Ascending(S \ {m})

Reverse(s) == [i \in 1 .. Len(s) |-> s[Len(s) + 1 - i]]

RangeOrders(S) ==
    IF Cardinality(S) <= MaxPerm
    THEN { s \in [1 .. Cardinality(S) -> S] :
             \A i, j \in 1 .. Cardinality(S) : s[i] = s[j] => i = j }
    ELSE { Ascending(S), Reverse(Ascending(S)) }

\* SimulateWorld without `w.isSimulating = true`.
SimulateWorldKeepsMode(order) ==
    /\ isSimulating' = isSimulating
    /\ liveCells' = RangeLoop(liveCells, order, Len(order))

SimulateWorld(order) ==
    /\ isSimulating' = TRUE
    /\ liveCells' = RangeLoop(liveCells, order, Len(order))

(***************************************************************************)
(* handleMouseClick: the pixel is turned into a cell with Go's division,   *)
(* a cell off the grid is ignored, any other cell is toggled.              *)
(***************************************************************************)
\* Lines 108-109 and 114: the cell under pixel (x, y).
clickedCell(x, y) == tile(GoDiv(x, tileSize), GoDiv(y - gridTop, tileSize))

\* handleMouseClick without the delete branch: a click always inserts.
handleMouseClickInserts(cells, pressed, x, y) ==
    LET cellX == clickedCell(x, y)[1]
        cellY == clickedCell(x, y)[2]
    IN  IF ~pressed
        THEN cells
        ELSE IF cellX < 0 \/ cellX >= gridWidth \/ cellY < 0 \/ cellY >= gridHeight
        THEN cells
        ELSE cells \cup {clickedCell(x, y)}

\* handleMouseClick with the two coordinates of the clicked cell swapped.
handleMouseClickSwapped(cells, pressed, x, y) ==
    LET cellX == clickedCell(x, y)[1]
        cellY == clickedCell(x, y)[2]
    IN  IF ~pressed
        THEN cells
        ELSE IF cellX < 0 \/ cellX >= gridWidth \/ cellY < 0 \/ cellY >= gridHeight
        THEN cells
        ELSE IF tile(cellY, cellX) \in cells
        THEN cells \ {tile(cellY, cellX)}
        ELSE cells \cup {tile(cellY, cellX)}

\* handleMouseClick with the upper range checks off by one.
handleMouseClickOffByOne(cells, pressed, x, y) ==
    LET cellX == clickedCell(x, y)[1]
        cellY == clickedCell(x, y)[2]
    IN  IF ~pressed
        THEN cells
        ELSE IF cellX < 0 \/ cellX > gridWidth \/ cellY < 0 \/ cellY > gridHeight
        THEN cells
        ELSE IF clickedCell(x, y) \in cells
        THEN cells \ {clickedCell(x, y)}
        ELSE cells \cup {clickedCell(x, y)}

\* The live cells after handleMouseClick(x, y) on the live cells `cells`.
handleMouseClick(cells, pressed, x, y) ==
    LET cellX == clickedCell(x, y)[1]
        cellY == clickedCell(x, y)[2]
    IN  IF ~pressed
        THEN cells
        ELSE IF cellX < 0 \/ cellX >= gridWidth \/ cellY < 0 \/ cellY >= gridHeight
        THEN cells
        ELSE IF clickedCell(x, y) \in cells
        THEN cells \ {clickedCell(x, y)}
        ELSE cells \cup {clickedCell(x, y)}

(***************************************************************************)
(* generateRandomCells: the map is cleared, numCells is drawn by           *)
(* rand.Intn((totalCells / 5) + totalCells/5), and numCells coordinates    *)
(* are drawn and inserted.  picks[i] is the i-th coordinate drawn.         *)
(***************************************************************************)
totalCells == gridWidth * gridHeight

NumCellsDraws == Intn((totalCells \div 5) + totalCells \div 5)

\* The draws of numCells that are explored.
NumCellsSample == { n \in {0, 1, 2, 319, 320, 639} : n \in NumCellsDraws }

\* The sequences of numCells coordinates that are explored.
PickSeqs(numCells) ==
    IF numCells = 0 THEN { <<>> }
    ELSE LET k == IF numCells < MaxPicks THEN numCells ELSE MaxPicks
         IN  { [i \in 1 .. numCells |-> IF i <= k THEN p[i] ELSE p[k]] :
                 p \in [1 .. k -> RandCells] }

generateRandomCells(numCells, picks) ==
    liveCells' = { picks[i] : i \in 1 .. numCells }

(***************************************************************************)
(* generateGosperGliderGun: the map is cleared and the literal list is     *)
(* inserted.                                                               *)
(***************************************************************************)
gliderGun ==
    << <<1, 5>>, <<1, 6>>, <<2, 5>>, <<2, 6>>,
       <<11, 5>>, <<11, 6>>, <<11, 7>>,
       <<12, 4>>, <<12, 8>>,
       <<13, 3>>, <<13, 9>>,
       <<14, 3>>, <<14, 9>>,
       <<15, 6>>,
       <<16, 4>>, <<16, 8>>,
       <<17, 5>>, <<17, 6>>, <<17, 7>>,
       <<18, 6>>,
       <<21, 3>>, <<21, 4>>, <<21, 5>>,
       <<22, 3>>, <<22, 4>>, <<22, 5>>,
       <<23, 2>>, <<23, 6>>,
       <<25, 1>>, <<25, 2>>, <<25, 6>>, <<25, 7>>,
       <<35, 3>>, <<35, 4>>,
       <<36, 3>>, <<36, 4>> >>

RECURSIVE InsertAll(_, _, _)
InsertAll(cells, list, i) ==
    IF i > Len(list) THEN cells
    ELSE InsertAll(cells \cup {list[i]}, list, i + 1)

\* generateGosperGliderGun without the clearing of the map.
generateGosperGliderGunKeeps ==
    liveCells' = InsertAll(liveCells, gliderGun, 1)

generateGosperGliderGun ==
    liveCells' = InsertAll({}, gliderGun, 1)

(***************************************************************************)
(* Game.Update, check by check.                                            *)
(***************************************************************************)
\* Lines 245-249.  ebiten calls Update once per tick; the clock has moved on
\* since the last call.  A held Escape or Q returns ebiten.Termination.
\* The quit check clearing the grid before it returns the termination.
UpdateQuitClears ==
    /\ pc = "quit"
    /\ \E dt \in FrameTimes, quit \in BOOLEAN :
         /\ now + dt <= MaxTime
         /\ now' = now + dt
         /\ IF quit
            THEN /\ pc' = "terminated"
                 /\ ev' = Ev("quit", 0, 0, 0)
                 /\ frame' = NoFrame
                 /\ liveCells' = {}
            ELSE /\ pc' = "random"
                 /\ ev' = NoEv
                 /\ frame' = Frame(isSimulating, FALSE, FALSE)
                 /\ liveCells' = liveCells
    /\ UNCHANGED <<isSimulating, lastUpdate>>

UpdateQuit ==
    /\ pc = "quit"
    /\ \E dt \in FrameTimes, quit \in BOOLEAN :
         /\ now + dt <= MaxTime
         /\ now' = now + dt
         /\ IF quit
            THEN /\ pc' = "terminated"
                 /\ ev' = Ev("quit", 0, 0, 0)
                 /\ frame' = NoFrame
            ELSE /\ pc' = "random"
                 /\ ev' = NoEv
                 /\ frame' = Frame(isSimulating, FALSE, FALSE)
    /\ UNCHANGED world

\* Lines 250-254.
UpdateRandom ==
    /\ pc = "random"
    /\ \E keyG \in BOOLEAN :
         IF keyG
         THEN \E numCells \in NumCellsSample :
                \E picks \in PickSeqs(numCells) :
                  /\ generateRandomCells(numCells, picks)
                  /\ ev' = Ev("randomize", 0, 0, numCells)
         ELSE liveCells' = liveCells /\ ev' = NoEv
    /\ pc' = "reset"
    /\ UNCHANGED <<isSimulating, lastUpdate, now, frame>>

\* The reset without `isSimulating = false`.
resetKeepsMode ==
    /\ liveCells' = {}
    /\ isSimulating' = isSimulating

\* Lines 257-258: the reset that Update does in line.
reset ==
    /\ liveCells' = {}
    /\ isSimulating' = FALSE

\* Lines 255-259.
UpdateReset ==
    /\ pc = "reset"
    /\ \E keyR \in BOOLEAN :
         IF keyR
         THEN /\ reset
              /\ ev' = Ev("reset", 0, 0, 0)
         ELSE /\ UNCHANGED <<liveCells, isSimulating>>
              /\ ev' = NoEv
    /\ pc' = "step"
    /\ UNCHANGED <<lastUpdate, now, frame>>

\* Lines 261-264.  Space held, or S just pressed (read only when Space is
\* not held): ev.kind is "run" or "single".
UpdateStep ==
    /\ pc = "step"
    /\ \E key \in {"run", "single", "none"} :
         IF key # "none"
         THEN \E order \in RangeOrders(liveCells) :
                /\ SimulateWorld(order)
                /\ ev' = Ev(key, 0, 0, Cardinality(liveCells))
                /\ frame' = [frame EXCEPT !.keyStep = TRUE]
         ELSE /\ UNCHANGED <<liveCells, isSimulating, frame>>
              /\ ev' = NoEv
    /\ pc' = "pause"
    /\ UNCHANGED <<lastUpdate, now>>

\* The pause check toggling the mode instead of forcing it to paused.
UpdatePauseToggles ==
    /\ pc = "pause"
    /\ \E keyP \in BOOLEAN :
         IF keyP
         THEN /\ isSimulating' = ~isSimulating
              /\ ev' = Ev("pause", 0, 0, 0)
              /\ frame' = [frame EXCEPT !.pause = TRUE]
         ELSE /\ isSimulating' = isSimulating
              /\ ev' = NoEv
              /\ frame' = frame
    /\ pc' = "pattern"
    /\ UNCHANGED <<liveCells, lastUpdate, now>>

\* Lines 266-269.
UpdatePause ==
    /\ pc = "pause"
    /\ \E keyP \in BOOLEAN :
         IF keyP
         THEN /\ isSimulating' = FALSE
              /\ ev' = Ev("pause", 0, 0, 0)
              /\ frame' = [frame EXCEPT !.pause = TRUE]
         ELSE /\ isSimulating' = isSimulating
              /\ ev' = NoEv
              /\ frame' = frame
    /\ pc' = "pattern"
    /\ UNCHANGED <<liveCells, lastUpdate, now>>

\* The pattern check starting the simulation when it loads the pattern.
UpdatePatternStarts ==
    /\ pc = "pattern"
    /\ \E key1 \in BOOLEAN :
         IF key1
         THEN /\ generateGosperGliderGun
              /\ isSimulating' = TRUE
              /\ ev' = Ev("pattern", 0, 0, 0)
         ELSE /\ UNCHANGED <<liveCells, isSimulating>>
              /\ ev' = NoEv
    /\ pc' = "auto"
    /\ UNCHANGED <<lastUpdate, now, frame>>

\* Lines 271-274.
UpdatePattern ==
    /\ pc = "pattern"
    /\ \E key1 \in BOOLEAN :
         IF key1
         THEN generateGosperGliderGun /\ ev' = Ev("pattern", 0, 0, 0)
         ELSE liveCells' = liveCells /\ ev' = NoEv
    /\ pc' = "auto"
    /\ UNCHANGED <<isSimulating, lastUpdate, now, frame>>

\* The timer check with the test written `>= 300*time.Millisecond`.
UpdateAutoAtInterval ==
    /\ pc = "auto"
    /\ IF isSimulating /\ now - lastUpdate >= stepInterval
       THEN \E order \in RangeOrders(liveCells) :
              /\ SimulateWorld(order)
              /\ lastUpdate' = now
              /\ ev' = Ev("auto", 0, 0, Cardinality(liveCells))
       ELSE /\ UNCHANGED <<liveCells, isSimulating, lastUpdate>>
            /\ ev' = NoEv
    /\ pc' = "mouse"
    /\ UNCHANGED <<now, frame>>

\* The timer check without the test of isSimulating.
UpdateAutoAlways ==
    /\ pc = "auto"
    /\ IF now - lastUpdate > stepInterval
       THEN \E order \in RangeOrders(liveCells) :
              /\ SimulateWorld(order)
              /\ lastUpdate' = now
              /\ ev' = Ev("auto", 0, 0, Cardinality(liveCells))
       ELSE /\ UNCHANGED <<liveCells, isSimulating, lastUpdate>>
            /\ ev' = NoEv
    /\ pc' = "mouse"
    /\ UNCHANGED <<now, frame>>

\* The timer check with the two times of the subtraction exchanged.
UpdateAutoBackwards ==
    /\ pc = "auto"
    /\ IF isSimulating /\ lastUpdate - now > stepInterval
       THEN \E order \in RangeOrders(liveCells) :
              /\ SimulateWorld(order)
              /\ lastUpdate' = now
              /\ ev' = Ev("auto", 0, 0, Cardinality(liveCells))
       ELSE /\ UNCHANGED <<liveCells, isSimulating, lastUpdate>>
            /\ ev' = NoEv
    /\ pc' = "mouse"
    /\ UNCHANGED <<now, frame>>

\* Lines 276-280.
UpdateAuto ==
    /\ pc = "auto"
    /\ IF isSimulating /\ now - lastUpdate > stepInterval
       THEN \E order \in RangeOrders(liveCells) :
              /\ SimulateWorld(order)
              /\ lastUpdate' = now
              /\ ev' = Ev("auto", 0, 0, Cardinality(liveCells))
       ELSE /\ UNCHANGED <<liveCells, isSimulating, lastUpdate>>
            /\ ev' = NoEv
    /\ pc' = "mouse"
    /\ UNCHANGED <<now, frame>>

\* Lines 282-287.
UpdateMouse ==
    /\ pc = "mouse"
    /\ \E pressed \in BOOLEAN :
         IF pressed
         THEN \E p \in Pointers :
                /\ liveCells' = handleMouseClick(liveCells, pressed, p[1], p[2])
                /\ ev' = Ev("click", p[1], p[2], 0)
         ELSE liveCells' = liveCells /\ ev' = NoEv
    /\ pc' = "quit"
    /\ frame' = NoFrame
    /\ UNCHANGED <<isSimulating, lastUpdate, now>>

Next ==
    \/ UpdateQuit
    \/ UpdateRandom
    \/ UpdateReset
    \/ UpdateStep
    \/ UpdatePause
    \/ UpdatePattern
    \/ UpdateAuto
    \/ UpdateMouse

Spec == Init /\ [][Next]_vars

(***************************************************************************)
(* SimulateWorld on its own: one call, from the step check or from the     *)
(* timer check, on every live-cell set of the 3 x 3 block in the grid's    *)
(* corner (each of them can be clicked together), in either mode.          *)
(***************************************************************************)
CornerBlock == (0 .. 2) \X (0 .. 2)

InitStep ==
    /\ liveCells \in SUBSET CornerBlock
    /\ isSimulating \in BOOLEAN
    /\ lastUpdate = 0
    /\ now \in FrameTimes
    /\ pc \in {"step", "auto"}
    /\ ev = NoEv
    /\ frame = Frame(isSimulating, FALSE, FALSE)

NextStep ==
    \/ UpdateStep
    \/ UpdateAuto

StepSpec == InitStep /\ [][NextStep]_vars

(***************************************************************************)
(* Update called for ever.  ebiten calls Update at every tick and Update   *)
(* runs to its end: weak fairness of the checks.  Update reads the clock   *)
(* only as time.Since(lastUpdate), so the clock is kept as the time since  *)
(* lastUpdate (lastUpdate is time 0 at every entry of Update) and stops    *)
(* growing at MaxElapsed.  The pattern key and the mouse button are left   *)
(* alone, so that the live cells stay among those rand.Intn is explored    *)
(* at and their generations.                                               *)
(***************************************************************************)
UpdateQuitLive ==
    /\ pc = "quit"
    /\ \E dt \in FrameTimes, quit \in BOOLEAN :
         /\ now' = IF now - lastUpdate + dt < MaxElapsed
                   THEN now - lastUpdate + dt ELSE MaxElapsed
         /\ lastUpdate' = 0
         /\ IF quit
            THEN /\ pc' = "terminated"
                 /\ ev' = Ev("quit", 0, 0, 0)
                 /\ frame' = NoFrame
            ELSE /\ pc' = "random"
                 /\ ev' = NoEv
                 /\ frame' = Frame(isSimulating, FALSE, FALSE)
    /\ UNCHANGED <<liveCells, isSimulating>>

NextLive ==
    \/ UpdateQuitLive
    \/ UpdateRandom
    \/ UpdateReset
    \/ UpdateStep
    \/ UpdatePause
    \/ UpdatePattern /\ ev' = NoEv
    \/ UpdateAuto
    \/ UpdateMouse /\ ev' = NoEv

LiveSpec == Init /\ [][NextLive]_vars /\ WF_vars(NextLive)

(***************************************************************************)
(* Update with the run key and the single-step key never down: the live    *)
(* cells change by clicks, randomize, pattern load and reset only.         *)
(***************************************************************************)
NextEdit ==
    \/ UpdateQuit
    \/ UpdateRandom
    \/ UpdateReset
    \/ UpdateStep /\ ev' = NoEv
    \/ UpdatePause
    \/ UpdatePattern
    \/ UpdateAuto
    \/ UpdateMouse

EditSpec == Init /\ [][NextEdit]_vars

(***************************************************************************)
(* Vocabulary of the properties.                                           *)
(***************************************************************************)
Abs(n) == IF n < 0 THEN -n ELSE n

\* The number of cells of S among the 8 Moore neighbours of c.
MooreCount(S, c) ==
    Cardinality({ d \in S : d # c /\ Abs(d[1] - c[1]) <= 1 /\ Abs(d[2] - c[2]) <= 1 })

\* Every coordinate within Chebyshev distance r of a cell of S.
Around(S, r) ==
    UNION { { tile(c[1] + i, c[2] + j) : i \in (-r) .. r, j \in (-r) .. r } : c \in S }

\* The standard Game-of-Life rule applied simultaneously to S.
LifeRule(S) ==
    { c \in Around(S, 1) :
        IF c \in S THEN MooreCount(S, c) \in {2, 3} ELSE MooreCount(S, c) = 3 }

\* The pixel (x, y) lies outside the grid's rectangle.
PixelOutside(x, y) ==
    \/ x < 0
    \/ x >= gridWidth * tileSize
    \/ y < gridTop
    \/ y >= gridTop + gridHeight * tileSize

InGrid(c) == c[1] >= 0 /\ c[1] < gridWidth /\ c[2] >= 0 /\ c[2] < gridHeight

\* This step is a call of SimulateWorld, by a key or by the timer.
KeyStepCall == pc = "step" /\ pc' = "pause" /\ ev'.kind \in {"run", "single"}
AutoStepCall == pc = "auto" /\ pc' = "mouse" /\ ev'.kind = "auto"
StepCall == KeyStepCall \/ AutoStepCall
\* This step is a click, a randomize, a reset, a pattern load.
ClickCall == pc = "mouse" /\ pc' = "quit" /\ ev'.kind = "click"
RandomizeCall == pc = "random" /\ pc' = "reset" /\ ev'.kind = "randomize"
ResetCall == pc = "reset" /\ pc' = "step" /\ ev'.kind = "reset"
PatternCall == pc = "pattern" /\ pc' = "auto" /\ ev'.kind = "pattern"

\* C1: a live cell is live after one SimulateWorld iff exactly 2 or 3 of its
\* 8 Moore neighbours were live; with 0, 1 or 4 to 8 live neighbours it is
\* absent from the next generation.
C1_Survival ==
    [][StepCall =>
         \A c \in liveCells :
            (c \in liveCells') <=> (MooreCount(liveCells, c) \in {2, 3})]_vars

\* A call has run and left the middle of a row of three alive, between two
\* cells born above and below it, the ends of the row having died.
C1_Witness ==
    /\ ev.kind \in {"run", "single"}
    /\ liveCells = { <<1, 0>>, <<1, 1>>, <<1, 2>> }

\* C2: a dead cell, at any coordinate, is live after one SimulateWorld iff
\* exactly 3 of its 8 Moore neighbours were live: every cell born had 3 live
\* neighbours, and every dead cell with 3 live neighbours is born.
C2_Birth ==
    [][StepCall =>
         /\ \A d \in liveCells' \ liveCells : MooreCount(liveCells, d) = 3
         /\ \A d \in Around(liveCells, 2) \ liveCells :
               MooreCount(liveCells, d) = 3 => d \in liveCells']_vars

\* A call by the timer has run and a cell outside the grid has been born.
C2_Witness ==
    /\ ev.kind = "auto"
    /\ <<1, -1>> \in liveCells

\* C3: a click whose pointer is outside the grid's rectangle (left of it,
\* right of it, in the top margin or below it) leaves the live cells
\* unchanged.
C3_ClickOutsideIsNoOp ==
    [][ClickCall /\ PixelOutside(ev'.x, ev'.y) => liveCells' = liveCells]_vars

\* C4: toggling twice at the same pointer position restores the live cells:
\* after every click, one more click at the same position gives back the
\* live cells the first click started from.
C4_ToggleTwice ==
    [][ClickCall =>
         handleMouseClick(liveCells', TRUE, ev'.x, ev'.y) = liveCells]_vars

\* A click on cell (1, 0) has just removed it: the second of two toggles.
C4_Witness ==
    /\ pc = "quit"
    /\ ev.kind = "click" /\ ev.x = 25 /\ ev.y = 25
    /\ <<1, 0>> \notin liveCells
    /\ <<0, 0>> \in liveCells

\* C5: a click on an in-range cell flips the membership of that cell and of
\* no other, and changes neither the mode nor the last-step timestamp.
C5_ToggleFlipsOne ==
    [][ClickCall /\ InGrid(clickedCell(ev'.x, ev'.y)) =>
         /\ \A c \in liveCells \cup liveCells' \cup {clickedCell(ev'.x, ev'.y)} :
               (c \in liveCells') <=>
                 (IF c = clickedCell(ev'.x, ev'.y)
                  THEN c \notin liveCells ELSE c \in liveCells)
         /\ isSimulating' = isSimulating
         /\ lastUpdate' = lastUpdate]_vars

\* A click has inserted cell (2, 0) next to a live cell while running.
C5_Witness ==
    /\ pc = "quit"
    /\ ev.kind = "click" /\ ev.x = 45 /\ ev.y = 25
    /\ <<2, 0>> \in liveCells
    /\ <<1, 0>> \in liveCells
    /\ isSimulating

\* C6: a reset, in any mode and on any live cells, leaves no live cell and
\* the mode paused.
C6_Reset ==
    [][ResetCall => liveCells' = {} /\ ~isSimulating']_vars

\* A reset has run after the timer had stepped a running simulation.
C6_Witness ==
    /\ pc = "step"
    /\ ev.kind = "reset"
    /\ lastUpdate > 0

\* C7: a pattern load leaves exactly the 36 listed coordinates live: all of
\* them, and no other cell, whatever was live before.
C7_Pattern ==
    [][PatternCall =>
         /\ liveCells' = { gliderGun[i] : i \in 1 .. Len(gliderGun) }
         /\ Len(gliderGun) = 36
         /\ Cardinality(liveCells') = 36]_vars

\* The pattern has been loaded over other live cells.
C7_Witness ==
    /\ pc = "auto"
    /\ ev.kind = "pattern"
    /\ <<1, 5>> \in liveCells
    /\ <<0, 0>> \notin liveCells
    /\ now > 150

\* C8: only the step check turns the mode from paused to running, and only
\* when the run key or the single-step key is active; a randomize, a pattern
\* load and a click leave the mode as it was.
C8_OnlyStepStarts ==
    [][/\ (~isSimulating /\ isSimulating') => KeyStepCall
       /\ (RandomizeCall \/ PatternCall \/ ClickCall) =>
             isSimulating' = isSimulating]_vars

\* The pattern has been loaded in paused mode, after the simulation had
\* been running, and the mode is still paused.
C8_Witness ==
    /\ pc = "auto"
    /\ ev.kind = "pattern"
    /\ ~isSimulating
    /\ lastUpdate > 0

\* C9: every call of SimulateWorld, by the run key, the single-step key or
\* the timer, replaces the live cells by their next generation and leaves
\* the mode running.
C9_StepReplaces ==
    [][StepCall =>
         /\ isSimulating'
         /\ liveCells' = LifeRule(liveCells)]_vars

\* The timer has stepped the simulation.
C9_Witness ==
    /\ pc = "mouse"
    /\ ev.kind = "auto"
    /\ isSimulating
    /\ lastUpdate = now
    /\ liveCells # {}

\* C10: a randomize draws a count n with totalCells/5 <= n < 2*totalCells/5
\* and leaves at most n live cells, all of them in the grid.
C10_RandomizeCount ==
    [][RandomizeCall =>
         /\ totalCells \div 5 <= ev'.n
         /\ ev'.n < (2 * totalCells) \div 5
         /\ Cardinality(liveCells') <= ev'.n
         /\ \A c \in liveCells' : InGrid(c)]_vars


\* C11: SimulateWorld is deterministic: the next generation a call leaves,
\* in either mode and at any timestamp, is the one every order of visiting
\* the live cells computes from the same live cells.
C11_Deterministic ==
    [][StepCall =>
         \A order \in RangeOrders(liveCells) :
            RangeLoop(liveCells, order, Len(order)) = liveCells']_vars

\* The run key has stepped the full 3 x 3 block, visited in two orders.
C11_Witness ==
    /\ pc = "pause"
    /\ ev.kind = "run"
    /\ ev.n = 9
    /\ liveCells = { <<0, 0>>, <<2, 0>>, <<0, 2>>, <<2, 2>>,
                     <<1, -1>>, <<-1, 1>>, <<3, 1>>, <<1, 3>> }

\* C12: with a single live cell c, countLiveNeighbors is 1 at each of the 8
\* neighbours of c and 0 at every other coordinate, c included, and one
\* SimulateWorld leaves no live cell.
C12_SingleCell ==
    [][Cardinality(liveCells) = 1 =>
         /\ \A d \in Around(liveCells, 3) :
               countLiveNeighbors(liveCells, d[1], d[2]) =
                 (IF d \notin liveCells /\ d \in Around(liveCells, 1) THEN 1 ELSE 0)
         /\ StepCall => liveCells' = {}]_vars

\* The single-step key has stepped a single live cell, and none is left.
C12_Witness ==
    /\ pc = "pause"
    /\ ev.kind = "single"
    /\ ev.n = 1
    /\ liveCells = {}


\* This step is the timer check, the quit check, the end of a frame.
AutoCheck == pc = "auto" /\ pc' = "mouse"
QuitCall == pc = "quit" /\ pc' = "terminated" /\ ev'.kind = "quit"
FrameEnd == pc = "mouse" /\ pc' = "quit"

\* C13: after every frame in which SimulateWorld ran, by the run key, the
\* single-step key or the timer, lastUpdate is the clock time of that frame
\* (the click check that follows the timer check leaves lastUpdate alone).
C13_TimestampOnEveryStep ==
    [][AutoCheck /\ (frame.keyStep \/ ev'.kind = "auto") =>
         lastUpdate' = now']_vars

C15_PauseWins ==
    [][/\ (AutoCheck /\ frame.pause) => (ev'.kind # "auto" /\ world' = world)
       /\ (FrameEnd /\ frame.pause) => ~isSimulating']_vars

\* The pause key was held in a frame in which a step key ran SimulateWorld
\* and more than 300 ms had passed: the timer check has not stepped.
C15_Witness ==
    /\ pc = "mouse"
    /\ frame.pause /\ frame.keyStep
    /\ now - lastUpdate > stepInterval
    /\ ev.kind = "none"
    /\ ~isSimulating

\* C16: in a frame entered in paused mode in which no step key is active,
\* the mode stays paused, the timer check does not step, and the live cells
\* change only by a randomize, a reset, a pattern load or a click.
C16_PausedStaysPaused ==
    [][(pc \notin {"quit", "terminated"} /\ ~frame.sim0 /\ ~frame.keyStep
           /\ ~KeyStepCall) =>
         /\ ~isSimulating'
         /\ ev'.kind # "auto"
         /\ lastUpdate' = lastUpdate
         /\ liveCells' # liveCells =>
               (RandomizeCall \/ ResetCall \/ PatternCall \/ ClickCall)]_vars

\* A paused frame without step key has passed the timer check, long after
\* the last step and with live cells, and nothing has been computed.
C16_Witness ==
    /\ pc = "mouse"
    /\ ~frame.sim0 /\ ~frame.keyStep /\ ~frame.pause
    /\ now - lastUpdate > stepInterval
    /\ liveCells # {}
    /\ ev.kind = "none"
    /\ ~isSimulating

\* C17: whenever the mode is running, a generation is computed later on
\* unless a pause, a reset or a quit comes first, and the mode goes from
\* running to paused only by a pause or a reset; so, without those inputs,
\* generations are computed again and again.
C17_RunningKeepsStepping ==
    /\ isSimulating ~>
          (ev.kind \in {"run", "single", "auto"} \/ ev.kind \in {"pause", "reset", "quit"})
    /\ [][(isSimulating /\ ~isSimulating') => ev'.kind \in {"pause", "reset"}]_vars

\* A frame entered in running mode, with neither step key nor pause key,
\* in which the timer has stepped.
C17_Witness ==
    /\ pc = "mouse"
    /\ ev.kind = "auto"
    /\ frame.sim0 /\ ~frame.keyStep /\ ~frame.pause
    /\ isSimulating

\* C18: a frame with a quit key held returns the termination at once: the
\* live cells, the mode and lastUpdate are unchanged, and no other check of
\* Update runs afterwards.
C18_QuitFirst ==
    [][/\ (pc = "quit" /\ ev'.kind = "quit") =>
             (pc' = "terminated" /\ world' = world)
       /\ pc = "terminated" => vars' = vars]_vars

\* Update has returned the termination while running, with live cells.
C18_Witness ==
    /\ pc = "terminated"
    /\ ev.kind = "quit"
    /\ liveCells # {}
    /\ isSimulating

\* C19: SimulateWorld does not clip to the grid: in every call, by a key or
\* by the timer, countLiveNeighbors counts the live cells outside the grid
\* like those inside, and a coordinate outside the grid is live afterwards
\* exactly when the rule of Life says so (kept with 2 or 3 live neighbours,
\* born with exactly 3).
C19_NoClipping ==
    [][StepCall =>
         /\ \A d \in Around(liveCells, 1) :
               countLiveNeighbors(liveCells, d[1], d[2]) = MooreCount(liveCells, d)
         /\ \A d \in Around(liveCells, 1) :
               ~InGrid(d) => (d \in liveCells' <=> d \in LifeRule(liveCells))]_vars

\* A step has just kept the live cell (1, -1) above the grid and has borne
\* (0, -1), which has at most two neighbours inside the grid: a live cell
\* outside the grid was counted.
C19_Witness ==
    /\ pc = "pause"
    /\ ev.kind \in {"run", "single"}
    /\ <<1, -1>> \in liveCells
    /\ <<0, -1>> \in liveCells
    /\ <<0, 0>> \in liveCells

\* C20: as long as no generation is computed, whatever the clicks, the
\* randomize, pattern and reset keys, every live cell is inside the grid.
C20_EditsStayInGrid == \A c \in liveCells : InGrid(c)

\* The pattern is loaded and a click right of the grid's last column has
\* just been ignored.
C20_Witness ==
    /\ pc = "quit"
    /\ ev.kind = "click"
    /\ ev.x >= gridWidth * tileSize
    /\ Cardinality(liveCells) = 36
    /\ ~isSimulating

====
